---- MODULE Spec2Model ----
(***************************************************************************)
(* Model of the two command-line tools of the repository:                  *)
(*   process_facts.py    (StorageFactsProcessor and its main)              *)
(*   gather_all_facts.py (StorageFactsAggregator and the script it         *)
(*                        generates)                                       *)
(***************************************************************************)
EXTENDS Integers, Sequences, FiniteSets, TLC

VARIABLES
    pc,          \* position of the running process
    infile,      \* the file selected by -f
    outfile,     \* the file selected by -o
    data,        \* StorageFactsProcessor.data, the parsed document
    cmd,         \* args.command and its arguments, as dispatched
    printed,     \* what the subcommand printed (its results)
    err,         \* an "Error: ..." message (or the help text) was printed
    crashed,     \* the process ended by an uncaught exception
    exit_status, \* the process exit status, NoExit while running
    \* the aggregator (gather_all_facts.py)
    use_role,             \* args.use_role
    vault_password_file,  \* self.vault_password_file, "" for None
    playbook_file,        \* the temporary script file of run
    cmdline,              \* cmd, the command line built
    proc,                 \* what subprocess.run did
    success,              \* the value run / run_simple returned
    \* the automation engine executing the generated script
    task,                 \* index of the next task of the script
    registered,           \* the registered results, <key>_result
    all_facts,            \* the facts set, all_facts_<key>
    combined_facts,       \* the fact combined_facts
    payload               \* the data a collection module returns when it succeeds

pvars == <<pc, infile, outfile, data, cmd, printed, err, crashed, exit_status>>
avars == <<use_role, vault_password_file, playbook_file, cmdline, proc, success>>
evars == <<task, registered, all_facts, combined_facts, payload>>
vars == <<pvars, avars, evars>>

(***************************************************************************)
(* Bounds of the model.                                                    *)
(***************************************************************************)
MaxLen == 2

(***************************************************************************)
(* JSON values as Python's json module holds them in memory.               *)
(***************************************************************************)
JStr(s) == [t |-> "str", v |-> s]
JNum(n) == [t |-> "num", v |-> n]
JBool(b) == [t |-> "bool", v |-> b]
JNull == [t |-> "null", v |-> "null"]
JList(s) == [t |-> "list", v |-> s]
JDict(f) == [t |-> "dict", v |-> f]
EmptyDict == JDict(<<>>)

\* isinstance(x, dict), isinstance(x, list)
IsDict(x) == x.t = "dict"
IsList(x) == x.t = "list"
Keys(d) == DOMAIN d.v

\* Python truth value of a JSON value: `if x`
Truthy(x) ==
    CASE x.t = "str" -> x.v # ""
      [] x.t = "num" -> x.v # 0
      [] x.t = "bool" -> x.v
      [] x.t = "null" -> FALSE
      [] x.t = "list" -> Len(x.v) > 0
      [] x.t = "dict" -> DOMAIN x.v # {}

\* content.get(key, default) on a dict
DictGet(d, k, default) == IF k \in DOMAIN d.v THEN d.v[k] ELSE default

(***************************************************************************)
(* JSON text.  A file's text is the sequence of its tokens (white space,   *)
(* which json.dump's indent adds and json.load skips, is not kept).        *)
(***************************************************************************)
Tok(t, v) == [t |-> t, v |-> v]
P(s) == Tok("p", s)

\* Every string the model uses as a dictionary key, in Python's string order
StrOrder == <<
    "audit_log_transfer_dest", "channel_boards", "clpr", "data",
    "disk_drives", "external_parity_groups", "external_path_groups", "external_volumes",
    "failed", "hardware_installed", "host_groups", "id",
    "iscsi_remote_connections", "iscsi_targets", "journal_volumes", "journals",
    "ldevs", "microprocessors", "msg", "other",
    "parity_groups", "quorum_disks", "remote_connections", "resource_groups",
    "server_priority_managers", "shadow_image_groups", "shadow_image_pairs", "snapshot_groups",
    "snapshots", "snmp_settings", "status", "storage_pools",
    "storage_ports", "storage_system", "user_groups", "users" >>

\* sorted(S) for a set S of key strings
Sorted(S) == SelectSeq(StrOrder, LAMBDA s : s \in S)

RECURSIVE json_dump(_)
RECURSIVE DumpElems(_, _)
RECURSIVE DumpMembers(_, _)

\* the elements of a list from index i on, separated by commas
DumpElems(s, i) ==
    IF i > Len(s) THEN <<>>
    ELSE json_dump(s[i]) \o (IF i < Len(s) THEN <<P(",")>> ELSE <<>>) \o DumpElems(s, i + 1)

\* the members of the dictionary f whose keys are ks, from index i on
DumpMembers(f, i) ==
    LET ks == Sorted(DOMAIN f)
    IN IF i > Len(ks) THEN <<>>
       ELSE <<Tok("str", ks[i]), P(":")>> \o json_dump(f[ks[i]])
            \o (IF i < Len(ks) THEN <<P(",")>> ELSE <<>>) \o DumpMembers(f, i + 1)

\* json.dump(x, f): the text written for the value x
json_dump(x) ==
    CASE x.t = "str" -> <<Tok("str", x.v)>>
      [] x.t = "num" -> <<Tok("num", x.v)>>
      [] x.t = "bool" -> <<Tok("lit", IF x.v THEN "true" ELSE "false")>>
      [] x.t = "null" -> <<Tok("lit", "null")>>
      [] x.t = "list" -> <<P("[")>> \o DumpElems(x.v, 1) \o <<P("]")>>
      [] x.t = "dict" -> <<P("{")>> \o DumpMembers(x.v, 1) \o <<P("}")>>

\* The parser's result: a value and the position after it, or a failure
ParseOk(x, i) == [ok |-> TRUE, val |-> x, next |-> i]
ParseFail == [ok |-> FALSE, val |-> JNull, next |-> 0]
IsP(ts, i, s) == i <= Len(ts) /\ ts[i].t = "p" /\ ts[i].v = s

RECURSIVE ParseValue(_, _)
RECURSIVE ParseElems(_, _, _)
RECURSIVE ParseMembers(_, _, _)

\* after "[" or ",": one element, then "," or "]"
ParseElems(ts, i, acc) ==
    LET r == ParseValue(ts, i)
    IN IF ~ r.ok THEN ParseFail
       ELSE IF IsP(ts, r.next, ",") THEN ParseElems(ts, r.next + 1, Append(acc, r.val))
       ELSE IF IsP(ts, r.next, "]") THEN ParseOk(JList(Append(acc, r.val)), r.next + 1)
       ELSE ParseFail

\* after "{" or ",": one "key": value member, then "," or "}"; a repeated key
\* keeps its last value
ParseMembers(ts, i, acc) ==
    IF ~ (i + 1 <= Len(ts) /\ ts[i].t = "str" /\ IsP(ts, i + 1, ":")) THEN ParseFail
    ELSE LET r == ParseValue(ts, i + 2)
             k == ts[i].v
             f == [j \in DOMAIN acc \cup {k} |-> IF j = k THEN r.val ELSE acc[j]]
         IN IF ~ r.ok THEN ParseFail
            ELSE IF IsP(ts, r.next, ",") THEN ParseMembers(ts, r.next + 1, f)
            ELSE IF IsP(ts, r.next, "}") THEN ParseOk(JDict(f), r.next + 1)
            ELSE ParseFail

ParseValue(ts, i) ==
    IF i > Len(ts) THEN ParseFail
    ELSE LET tok == ts[i]
         IN CASE tok.t = "str" -> ParseOk(JStr(tok.v), i + 1)
              [] tok.t = "num" -> ParseOk(JNum(tok.v), i + 1)
              [] tok.t = "lit" ->
                    IF tok.v = "null" THEN ParseOk(JNull, i + 1)
                    ELSE ParseOk(JBool(tok.v = "true"), i + 1)
              [] tok.t = "p" ->
                    IF tok.v = "[" THEN
                        IF IsP(ts, i + 1, "]") THEN ParseOk(JList(<<>>), i + 2)
                        ELSE ParseElems(ts, i + 1, <<>>)
                    ELSE IF tok.v = "{" THEN
                        IF IsP(ts, i + 1, "}") THEN ParseOk(EmptyDict, i + 2)
                        ELSE ParseMembers(ts, i + 1, <<>>)
                    ELSE ParseFail
              [] OTHER -> ParseFail

\* (mutant) a text that is not one JSON value is loaded as None
json_load_lenient(ts) ==
    LET r == ParseValue(ts, 1)
    IN IF r.ok /\ r.next = Len(ts) + 1 THEN [ok |-> TRUE, val |-> r.val]
       ELSE [ok |-> TRUE, val |-> JNull]

\* json.load(f): the whole text must be one value (JSONDecodeError otherwise)
json_load(ts) ==
    LET r == ParseValue(ts, 1)
    IN IF r.ok /\ r.next = Len(ts) + 1 THEN [ok |-> TRUE, val |-> r.val]
       ELSE [ok |-> FALSE, val |-> JNull]

(***************************************************************************)
(* Files.                                                                  *)
(***************************************************************************)
NoFile == [exists |-> FALSE, text |-> <<>>]
File(text) == [exists |-> TRUE, text |-> text]

\* f.read() in text mode decodes the bytes of the file: a "bad" token stands
\* for bytes that are no UTF-8 text (UnicodeDecodeError)
Decodes(ts) == \A i \in 1..Len(ts) : ts[i].t # "bad"

(***************************************************************************)
(* The inputs: documents, files and arguments.                             *)
(***************************************************************************)
Field(k, x) == [j \in {k} |-> x]
DataOf(x) == JDict(Field("data", x))

StatusVals == {JStr("Defined"), JStr("1"), JNum(1), JBool(TRUE)}
ItemObjects ==
    {EmptyDict, JDict(Field("id", JStr("7")))}
    \cup {JDict(Field("status", s)) : s \in StatusVals}
    \cup {JDict([j \in {"id", "status"} |-> IF j = "id" THEN JStr("7") ELSE s]) :
             s \in {JStr("Defined"), JNum(1)}}
NonObjectItems == {JNum(1), JStr("Defined")}
Items == ItemObjects \cup NonObjectItems
Lists == UNION {[1..n -> Items] : n \in 0..MaxLen}

Scalars == {JStr("x"), JStr(""), JNum(0), JNum(5), JBool(TRUE), JNull}
CatValues ==
    {DataOf(JList(l)) : l \in Lists}
    \cup {DataOf(EmptyDict), DataOf(JDict(Field("status", JStr("Defined"))))}
    \cup {DataOf(x) : x \in Scalars}
    \cup {EmptyDict, JDict(Field("other", JList(<<>>)))}
    \cup {JList(<<>>), JList(<<EmptyDict>>), JStr("x"), JNull}
SmallCatValues == {DataOf(JList(<<JDict(Field("id", JStr("7")))>>)), EmptyDict}

Absent == [t |-> "absent", v |-> "absent"]
MkDoc(a, b) ==
    JDict([c \in (IF a = Absent THEN {} ELSE {"ldevs"}) \cup (IF b = Absent THEN {} ELSE {"users"})
            |-> IF c = "ldevs" THEN a ELSE b])
Docs == {MkDoc(a, b) : a \in CatValues \cup {Absent}, b \in SmallCatValues \cup {Absent}}
NonDictRoots == {JList(<<>>), JList(<<JStr("ldevs")>>), JStr("x"), JNum(3), JNull}
InvalidTexts == {<<>>, <<P("{")>>, <<P("{"), Tok("str", "ldevs"), P("}")>>}
UndecodableTexts == {<<Tok("bad", "ff"), P("{"), P("}")>>}
InFiles ==
    {NoFile} \cup {File(json_dump(d)) : d \in Docs \cup NonDictRoots}
    \cup {File(ts) : ts \in InvalidTexts \cup UndecodableTexts}
OtherDocs ==
    {JDict(<<>>), MkDoc(DataOf(JList(<<>>)), Absent),
     MkDoc(DataOf(JList(<<EmptyDict>>)), DataOf(EmptyDict)),
     JDict(Field("storage_pools", DataOf(JStr("x")))),
     JDict([c \in {"users", "storage_pools"} |-> DataOf(JNum(5))]),
     JList(<<>>)}
OtherFiles ==
    {NoFile, File(<<P("[")>>)} \cup {File(ts) : ts \in UndecodableTexts}
    \cup {File(json_dump(d)) : d \in OtherDocs}
StaleFile == File(<<Tok("str", "stale")>>)

CategoryArgs == {"ldevs", "users", "storage_pools"}
KeyArgs == {"status", "id"}
ValueArgs == {"Defined", "1"}

NoExit == 0 - 1
NoCmd == [name |-> "", category |-> "", key |-> "", value |-> "", compare |-> NoFile]
Cmd(n, c, k, x) == [name |-> n, category |-> c, key |-> k, value |-> x, compare |-> NoFile]
Nothing == [cmd |-> ""]

NoProc == [raised |-> FALSE, returncode |-> NoExit]
AggIdle ==
    /\ use_role = FALSE /\ vault_password_file = "" /\ playbook_file = NoFile
    /\ cmdline = <<>> /\ proc = NoProc /\ success = "none"
EngineIdle ==
    /\ task = 0 /\ registered = <<>> /\ all_facts = <<>>
    /\ combined_facts = JNull /\ payload = JNull
ProcIdle ==
    /\ infile = NoFile /\ data = JNull /\ cmd = NoCmd /\ printed = Nothing
    /\ err = FALSE /\ crashed = FALSE

ProcInit ==
    /\ AggIdle /\ EngineIdle
    /\ pc = "start"
    /\ infile \in InFiles
    /\ outfile \in {NoFile, StaleFile}
    /\ data = JNull
    /\ cmd = NoCmd
    /\ printed = Nothing
    /\ err = FALSE
    /\ crashed = FALSE
    /\ exit_status = NoExit

(***************************************************************************)
(* How a process ends.                                                     *)
(***************************************************************************)
\* sys.exit(1) after an "Error: ..." message
Fail(c, p) ==
    /\ pc' = "done" /\ cmd' = c /\ printed' = p
    /\ err' = TRUE /\ crashed' = FALSE /\ exit_status' = 1

\* an uncaught exception: the interpreter prints the traceback and exits 1
Crash(c, p) ==
    /\ pc' = "done" /\ cmd' = c /\ printed' = p
    /\ err' = FALSE /\ crashed' = TRUE /\ exit_status' = 1

\* an "Error: ..." message is printed and the next statement raises
CrashAfterError(c, p) ==
    /\ pc' = "done" /\ cmd' = c /\ printed' = p
    /\ err' = TRUE /\ crashed' = TRUE /\ exit_status' = 1

\* main returns after the subcommand: the interpreter exits 0
Return(c, p) ==
    /\ pc' = "done" /\ cmd' = c /\ printed' = p
    /\ err' = FALSE /\ crashed' = FALSE /\ exit_status' = 0

(***************************************************************************)
(* Python operations on the loaded document, which may be any JSON value.  *)
(***************************************************************************)
\* `category in self.data`: "yes", "no", or "raise" (TypeError: a number, a
\* boolean or None is not iterable).  A list holds it as an element; a string
\* holds it as a substring (the model's root strings have one character, whose
\* substrings are itself and the empty string).
In(x, category) ==
    CASE x.t = "dict" -> IF category \in DOMAIN x.v THEN "yes" ELSE "no"
      [] x.t = "list" -> IF \E i \in 1..Len(x.v) : x.v[i] = JStr(category) THEN "yes" ELSE "no"
      [] x.t = "str" -> IF category = x.v \/ category = "" THEN "yes" ELSE "no"
      [] OTHER -> "raise"

\* self.data.items() / self.data.keys() exist (AttributeError otherwise)
HasItems(x) == IsDict(x)

\* len(self.data) is defined (TypeError otherwise)
HasLen(x) == x.t \in {"dict", "list", "str"}

\* str(x) for the scalars of the model
PyStr(x) ==
    CASE x.t = "str" -> x.v
      [] x.t = "num" -> <<"0", "1", "2", "3", "4", "5", "6", "7", "8", "9">>[x.v + 1]
      [] x.t = "bool" -> IF x.v THEN "True" ELSE "False"
      [] x.t = "null" -> "None"
      [] OTHER -> "?"

(***************************************************************************)
(* main: no subcommand given                                               *)
(***************************************************************************)
CommandNames == {"summary", "list", "validate", "extract", "count", "filter", "export", "diff"}

main_no_command ==
    /\ pc = "start"
    /\ Fail(NoCmd, Nothing)
    /\ UNCHANGED <<infile, outfile, data>>
    /\ UNCHANGED <<avars, evars>>

(***************************************************************************)
(* StorageFactsProcessor.__init__ / _load_json                             *)
(***************************************************************************)
_load_json ==
    /\ pc = "start"
    /\ \E n \in CommandNames :
          LET c == Cmd(n, "", "", "")
              r == json_load(infile.text)
          IN IF ~ infile.exists THEN Fail(c, Nothing) /\ data' = data
             \* UnicodeDecodeError is none of the exceptions _load_json catches
             ELSE IF ~ Decodes(infile.text) THEN Crash(c, Nothing) /\ data' = data
             ELSE IF ~ r.ok THEN Fail(c, Nothing) /\ data' = data
             ELSE /\ data' = r.val
                  /\ pc' = "loaded"
                  /\ cmd' = c
                  /\ UNCHANGED <<printed, err, crashed, exit_status>>
    /\ UNCHANGED <<infile, outfile>>
    /\ UNCHANGED <<avars, evars>>

(***************************************************************************)
(* summary                                                                 *)
(***************************************************************************)
\* the count summary gives one category (lines 57-64)
summary_count(content) ==
    IF IsDict(content) THEN
        LET data_list == DictGet(content, "data", JList(<<>>))
        IN IF IsList(data_list) THEN Len(data_list.v)
           ELSE IF Truthy(data_list) THEN 1 ELSE 0
    ELSE 0

RECURSIVE total_items(_, _, _)
\* total_items after the loop has run over the categories ks[i..]
total_items(d, ks, i) ==
    IF i > Len(ks) THEN 0
    ELSE summary_count(d.v[ks[i]]) + total_items(d, ks, i + 1)

summary ==
    /\ pc = "loaded" /\ cmd.name = "summary"
    /\ IF ~ HasLen(data) \/ ~ HasItems(data) THEN Crash(cmd, Nothing)
       ELSE Return(cmd, [cmd |-> "summary",
                         counts |-> [c \in Keys(data) |-> summary_count(data.v[c])],
                         total |-> total_items(data, Sorted(Keys(data)), 1)])
    /\ UNCHANGED <<infile, outfile, data>>
    /\ UNCHANGED <<avars, evars>>

(***************************************************************************)
(* list                                                                    *)
(***************************************************************************)
list_categories ==
    /\ pc = "loaded" /\ cmd.name = "list"
    /\ IF ~ HasItems(data) THEN Crash(cmd, Nothing)
       ELSE Return(cmd, [cmd |-> "list", categories |-> Sorted(Keys(data))])
    /\ UNCHANGED <<infile, outfile, data>>
    /\ UNCHANGED <<avars, evars>>

(***************************************************************************)
(* count                                                                   *)
(***************************************************************************)
\* the count `count` prints for a category's value (lines 167-177)
count_items(content) ==
    IF IsDict(content) THEN
        LET d == DictGet(content, "data", JList(<<>>))
        IN IF IsList(d) THEN Len(d.v)
           ELSE IF IsDict(d) THEN 1
           ELSE 0
    ELSE 0

count ==
    /\ pc = "loaded" /\ cmd.name = "count"
    /\ \E category \in CategoryArgs :
          LET c == Cmd("count", category, "", "")
              found == In(data, category)
          IN IF found = "raise" THEN Crash(c, Nothing)
             ELSE IF found = "no" THEN Fail(c, Nothing)
             ELSE IF ~ IsDict(data) THEN Crash(c, Nothing)
             ELSE Return(c, [cmd |-> "count", count |-> count_items(data.v[category])])
    /\ UNCHANGED <<infile, outfile, data>>
    /\ UNCHANGED <<avars, evars>>

(***************************************************************************)
(* extract                                                                 *)
(***************************************************************************)
\* (mutant) only the category's data payload is extracted
extracted_payload(d, category) ==
    IF IsDict(d.v[category]) /\ "data" \in Keys(d.v[category])
    THEN d.v[category].v["data"] ELSE d.v[category]

\* extracted = self.data[category]
extracted(d, category) == d.v[category]

extract ==
    /\ pc = "loaded" /\ cmd.name = "extract"
    /\ \E category \in CategoryArgs :
          LET c == Cmd("extract", category, "", "")
              found == In(data, category)
          IN IF found = "raise" THEN Crash(c, Nothing) /\ outfile' = outfile
             ELSE IF found = "no" THEN
                \* the message lists sorted(self.data.keys())
                /\ IF HasItems(data) THEN Fail(c, [cmd |-> "extract", available |-> Sorted(Keys(data))])
                   ELSE CrashAfterError(c, Nothing)
                /\ outfile' = outfile
             ELSE IF ~ IsDict(data) THEN Crash(c, Nothing) /\ outfile' = outfile
             ELSE /\ outfile' = File(json_dump(extracted(data, category)))
                  /\ Return(c, [cmd |-> "extract"])
    /\ UNCHANGED <<infile, data>>
    /\ UNCHANGED <<avars, evars>>

(***************************************************************************)
(* filter                                                                  *)
(***************************************************************************)
\* x == value for a str value: no other type equals a str
PyEqStr(x, value) == x.t = "str" /\ x.v = value

\* (mutant) the field is compared after conversion to str
filter_match_coerced(item, key, value) ==
    IsDict(item) /\ PyStr(DictGet(item, key, JNull)) = value

\* isinstance(item, dict) and item.get(key) == value
filter_match(item, key, value) ==
    IsDict(item) /\ PyEqStr(DictGet(item, key, JNull), value)

filter ==
    /\ pc = "loaded" /\ cmd.name = "filter"
    /\ \E category \in CategoryArgs, key \in KeyArgs, value \in ValueArgs :
          LET c == Cmd("filter", category, key, value)
              found == In(data, category)
          IN IF found = "raise" THEN Crash(c, Nothing) /\ outfile' = outfile
             ELSE IF found = "no" THEN Fail(c, Nothing) /\ outfile' = outfile
             ELSE IF ~ IsDict(data) THEN Crash(c, Nothing) /\ outfile' = outfile
             ELSE LET content == data.v[category]
                  IN IF ~ IsDict(content) \/ "data" \notin Keys(content)
                     THEN Fail(c, Nothing) /\ outfile' = outfile
                     ELSE LET items == content.v["data"]
                          IN IF ~ IsList(items) THEN Fail(c, Nothing) /\ outfile' = outfile
                             ELSE LET filtered == SelectSeq(items.v,
                                                     LAMBDA item : filter_match(item, key, value))
                                  IN /\ outfile' = File(json_dump(DataOf(JList(filtered))))
                                     /\ Return(c, [cmd |-> "filter", n |-> Len(filtered)])
    /\ UNCHANGED <<infile, data>>
    /\ UNCHANGED <<avars, evars>>

(***************************************************************************)
(* validate                                                                *)
(***************************************************************************)
\* errors after the check of the root (lines 128-129)
validate_errors(d) ==
    IF ~ IsDict(d) THEN <<"Root element is not a dictionary">> ELSE <<>>

\* the warning the loop appends for one category, "" for none (lines 133-141)
validate_warning(content) ==
    IF ~ IsDict(content) THEN "is not a dictionary"
    ELSE IF "data" \in Keys(content) THEN
        IF ~ (IsList(content.v["data"]) \/ IsDict(content.v["data"]))
        THEN "data is neither list nor dict" ELSE ""
    ELSE "missing 'data' key"

\* (mutant) the loop is skipped when the root has no items()
validate_loop_guarded(d) == TRUE

\* `for category, content in self.data.items()` can start: the root has
\* items() (AttributeError otherwise)
validate_loop_runs(d) == HasItems(d)

\* validate's return value; main drops it (line 355)
validate_return_code(errors) == IF errors # <<>> THEN 1 ELSE 0

validate ==
    /\ pc = "loaded" /\ cmd.name = "validate"
    /\ LET errors == validate_errors(data)
           cats == IF IsDict(data) THEN Keys(data) ELSE {}
       IN IF ~ validate_loop_runs(data) THEN Crash(cmd, Nothing)
          ELSE LET flagged == {c \in cats : validate_warning(data.v[c]) # ""}
               IN /\ pc' = "done" /\ cmd' = cmd
                  /\ printed' = [cmd |-> "validate", errors |-> errors,
                                 warnings |-> [c \in flagged |-> validate_warning(data.v[c])],
                                 return_code |-> validate_return_code(errors)]
                  /\ err' = (errors # <<>>)
                  /\ crashed' = FALSE
                  /\ exit_status' = 0
    /\ UNCHANGED <<infile, outfile, data>>
    /\ UNCHANGED <<avars, evars>>

(***************************************************************************)
(* export                                                                  *)
(***************************************************************************)
RECURSIVE fieldnames_of(_, _)
\* the set fieldnames after the loop over items[i..] (lines 200-203)
fieldnames_of(items, i) ==
    IF i > Len(items) THEN {}
    ELSE (IF IsDict(items[i]) THEN Keys(items[i]) ELSE {}) \cup fieldnames_of(items, i + 1)

\* DictWriter._dict_to_list: one cell per field name, '' for a missing key
csv_row(item, fieldnames) ==
    [i \in 1..Len(fieldnames) |->
        IF fieldnames[i] \in Keys(item)
        THEN (IF item.v[fieldnames[i]].t = "null" THEN "" ELSE PyStr(item.v[fieldnames[i]]))
        ELSE ""]

RECURSIVE writerows(_, _, _)
\* writer.writerows(items): the rows written, and whether an item raised
\* (a row that is no dict has no keys(): AttributeError); the rows before it
\* are in the file
writerows(items, fieldnames, i) ==
    IF i > Len(items) THEN [rows |-> <<>>, raised |-> FALSE]
    ELSE IF ~ IsDict(items[i]) THEN [rows |-> <<>>, raised |-> TRUE]
    ELSE LET rest == writerows(items, fieldnames, i + 1)
         IN [rows |-> <<csv_row(items[i], fieldnames)>> \o rest.rows, raised |-> rest.raised]

export_csv ==
    /\ pc = "loaded" /\ cmd.name = "export"
    /\ \E category \in CategoryArgs :
          LET c == Cmd("export", category, "", "")
              found == In(data, category)
          IN IF found = "raise" THEN Crash(c, Nothing) /\ outfile' = outfile
             ELSE IF found = "no" THEN Fail(c, Nothing) /\ outfile' = outfile
             ELSE IF ~ IsDict(data) THEN Crash(c, Nothing) /\ outfile' = outfile
             ELSE LET content == data.v[category]
                  IN IF ~ IsDict(content) \/ "data" \notin Keys(content)
                     THEN Fail(c, Nothing) /\ outfile' = outfile
                     ELSE LET items == content.v["data"]
                          IN IF ~ IsList(items) \/ Len(items.v) = 0
                             THEN Fail(c, Nothing) /\ outfile' = outfile
                             ELSE LET fieldnames == Sorted(fieldnames_of(items.v, 1))
                                      w == writerows(items.v, fieldnames, 1)
                                  IN /\ outfile' = File(<<fieldnames>> \o w.rows)
                                     /\ IF w.raised THEN Crash(c, Nothing)
                                        ELSE Return(c, [cmd |-> "export", n |-> Len(items.v),
                                                        columns |-> fieldnames])
    /\ UNCHANGED <<infile, data>>
    /\ UNCHANGED <<avars, evars>>

(***************************************************************************)
(* diff                                                                    *)
(***************************************************************************)
_get_item_count(content) ==
    IF IsDict(content) THEN
        LET d == DictGet(content, "data", JList(<<>>))
        IN IF IsList(d) THEN Len(d.v)
           ELSE IF IsDict(d) THEN 1
           ELSE 0
    ELSE 0

only_in_first(keys1, keys2) == keys1 \ keys2
\* (mutant) the operands are not swapped
only_in_second_unswapped(keys1, keys2) == keys1 \ keys2
only_in_second(keys1, keys2) == keys2 \ keys1
common(keys1, keys2) == keys1 \cap keys2
\* symbol = "=" if count1 == count2 else the unequal sign (line 248)
symbol(count1, count2) == IF count1 = count2 THEN "=" ELSE "/="

diff ==
    /\ pc = "loaded" /\ cmd.name = "diff"
    /\ \E other \in OtherFiles :
          LET c == [Cmd("diff", "", "", "") EXCEPT !.compare = other]
              r == json_load(other.text)
          IN IF ~ other.exists \/ ~ r.ok THEN Fail(c, Nothing)
             ELSE IF ~ HasItems(data) \/ ~ HasItems(r.val) THEN Crash(c, Nothing)
             ELSE LET other_data == r.val
                      keys1 == Keys(data)
                      keys2 == Keys(other_data)
                  IN Return(c, [cmd |-> "diff",
                                only_in_first |-> only_in_first(keys1, keys2),
                                only_in_second |-> only_in_second(keys1, keys2),
                                common |-> common(keys1, keys2),
                                counts |-> [k \in common(keys1, keys2) |->
                                              <<_get_item_count(data.v[k]),
                                                _get_item_count(other_data.v[k])>>],
                                symbol |-> [k \in common(keys1, keys2) |->
                                              symbol(_get_item_count(data.v[k]),
                                                     _get_item_count(other_data.v[k]))]])
    /\ UNCHANGED <<infile, outfile, data>>
    /\ UNCHANGED <<avars, evars>>

(***************************************************************************)
(* The processor: one invocation of process_facts.py                       *)
(***************************************************************************)
Next ==
    \/ main_no_command
    \/ _load_json
    \/ summary
    \/ list_categories
    \/ validate
    \/ extract
    \/ count
    \/ filter
    \/ export_csv
    \/ diff

Spec == ProcInit /\ [][Next]_vars

(***************************************************************************)
(* gather_all_facts.py: StorageFactsAggregator                             *)
(***************************************************************************)
\* FACTS_MODULES, in the order the dictionary is written
FACTS_MODULES == <<
    <<"audit_log_transfer_dest", "hitachivantara.vspone_block.vsp.hv_audit_log_transfer_dest_facts">>,
    <<"clpr", "hitachivantara.vspone_block.vsp.hv_clpr_facts">>,
    <<"disk_drives", "hitachivantara.vspone_block.vsp.hv_disk_drive_facts">>,
    <<"external_parity_groups", "hitachivantara.vspone_block.vsp.hv_external_paritygroup_facts">>,
    <<"external_path_groups", "hitachivantara.vspone_block.vsp.hv_external_path_group_facts">>,
    <<"external_volumes", "hitachivantara.vspone_block.vsp.hv_external_volume_facts">>,
    <<"host_groups", "hitachivantara.vspone_block.vsp.hv_hg_facts">>,
    <<"iscsi_remote_connections", "hitachivantara.vspone_block.vsp.hv_iscsi_remote_connection_facts">>,
    <<"iscsi_targets", "hitachivantara.vspone_block.vsp.hv_iscsi_target_facts">>,
    <<"journals", "hitachivantara.vspone_block.vsp.hv_journal_facts">>,
    <<"journal_volumes", "hitachivantara.vspone_block.vsp.hv_journal_volume_facts">>,
    <<"ldevs", "hitachivantara.vspone_block.vsp.hv_ldev_facts">>,
    <<"microprocessors", "hitachivantara.vspone_block.vsp.hv_mp_facts">>,
    <<"parity_groups", "hitachivantara.vspone_block.vsp.hv_paritygroup_facts">>,
    <<"quorum_disks", "hitachivantara.vspone_block.vsp.hv_quorum_disk_facts">>,
    <<"remote_connections", "hitachivantara.vspone_block.vsp.hv_remote_connection_facts">>,
    <<"resource_groups", "hitachivantara.vspone_block.vsp.hv_resource_group_facts">>,
    <<"server_priority_managers", "hitachivantara.vspone_block.vsp.hv_server_priority_manager_facts">>,
    <<"shadow_image_groups", "hitachivantara.vspone_block.vsp.hv_shadow_image_group_facts">>,
    <<"shadow_image_pairs", "hitachivantara.vspone_block.vsp.hv_shadow_image_pair_facts">>,
    <<"snapshots", "hitachivantara.vspone_block.vsp.hv_snapshot_facts">>,
    <<"snapshot_groups", "hitachivantara.vspone_block.vsp.hv_snapshot_group_facts">>,
    <<"snmp_settings", "hitachivantara.vspone_block.vsp.hv_snmp_settings_facts">>,
    <<"storage_ports", "hitachivantara.vspone_block.vsp.hv_storage_port_facts">>,
    <<"hardware_installed", "hitachivantara.vspone_block.vsp.hv_storage_system_monitor_facts">>,
    <<"channel_boards", "hitachivantara.vspone_block.vsp.hv_storage_system_monitor_facts">>,
    <<"storage_pools", "hitachivantara.vspone_block.vsp.hv_storagepool_facts">>,
    <<"storage_system", "hitachivantara.vspone_block.vsp.hv_storagesystem_facts">>,
    <<"users", "hitachivantara.vspone_block.vsp.hv_user_facts">>,
    <<"user_groups", "hitachivantara.vspone_block.vsp.hv_user_group_facts">> >>

FactKeys == {FACTS_MODULES[i][1] : i \in 1..Len(FACTS_MODULES)}

(***************************************************************************)
(* generate_playbook: the tasks of the generated script                    *)
(***************************************************************************)
\* the spec: block of the two monitor categories, "" for the others
spec_of(key) ==
    IF key = "hardware_installed" THEN "query: hardware_installed, include_component_option: false"
    ELSE IF key = "channel_boards" THEN "query: channel_boards"
    ELSE ""

\* (mutant) "Get <key>" without ignore_errors
get_task_strict(key, module) ==
    [kind |-> "module", key |-> key, module |-> module, spec |-> spec_of(key),
     register |-> key, ignore_errors |-> FALSE]

\* - name: Get <key>: the module, register: <key>_result, ignore_errors: true
get_task(key, module) ==
    [kind |-> "module", key |-> key, module |-> module, spec |-> spec_of(key),
     register |-> key, ignore_errors |-> TRUE]

\* - name: Set fact for <key>: all_facts_<key>: "{{ <key>_result.get('data', {}) }}"
set_fact_task(key) ==
    [kind |-> "set_fact", key |-> key, module |-> "set_fact", spec |-> "",
     register |-> "", ignore_errors |-> TRUE]

\* the tasks after the loop: aggregate, display, save, confirm
OtherTask(kind) ==
    [kind |-> kind, key |-> "", module |-> kind, spec |-> "",
     register |-> "", ignore_errors |-> FALSE]

RECURSIVE category_tasks(_)
\* the tasks the loop over FACTS_MODULES.items() has added for entries i..
category_tasks(i) ==
    IF i > Len(FACTS_MODULES) THEN <<>>
    ELSE <<get_task(FACTS_MODULES[i][1], FACTS_MODULES[i][2]),
           set_fact_task(FACTS_MODULES[i][1])>> \o category_tasks(i + 1)

\* the keys of combined_facts, one line "<key>: {{ all_facts_<key> }}" each
aggregation_keys == [i \in 1..Len(FACTS_MODULES) |-> FACTS_MODULES[i][1]]

generate_playbook ==
    category_tasks(1)
    \o <<OtherTask("aggregate"), OtherTask("display"), OtherTask("save"), OtherTask("confirm")>>

(***************************************************************************)
(* The automation engine running the generated script, task by task        *)
(***************************************************************************)
MaxFailures == 2
MaxItems == 1

AnItem == JDict(Field("id", JStr("7")))
Payloads == {JList([i \in 1..n |-> AnItem]) : n \in 0..MaxItems} \cup {AnItem}

\* the result a module registers: its data, or a failure
ModuleOk(p) == JDict(Field("data", p))
ModuleFailed == JDict([k \in {"failed", "msg"} |-> IF k = "failed" THEN JBool(TRUE) ELSE JStr("error")])
Failures == {k \in DOMAIN registered : registered[k] = ModuleFailed}

PlayInit ==
    /\ AggIdle /\ ProcIdle
    /\ pc = "play"
    /\ outfile = NoFile
    /\ exit_status = NoExit
    /\ task = 1
    /\ registered = <<>>
    /\ all_facts = <<>>
    /\ combined_facts = JNull
    /\ payload \in Payloads

Script == generate_playbook
AtTask(kind) == pc = "play" /\ task <= Len(Script) /\ Script[task].kind = kind
With(f, k, x) == [j \in DOMAIN f \cup {k} |-> IF j = k THEN x ELSE f[j]]

\* a failed task that is not ignored ends the play
Abort ==
    /\ pc' = "aborted"
    /\ exit_status' = 2
    /\ UNCHANGED task

\* "Get <key>": the module runs and its result is registered, failed or not
module_task ==
    /\ AtTask("module")
    /\ \E ok \in BOOLEAN :
          /\ ~ ok => Cardinality(Failures) < MaxFailures
          /\ registered' = With(registered, Script[task].register,
                                IF ok THEN ModuleOk(payload) ELSE ModuleFailed)
          /\ IF ok \/ Script[task].ignore_errors
             THEN task' = task + 1 /\ UNCHANGED <<pc, exit_status>>
             ELSE Abort
    /\ UNCHANGED <<infile, outfile, data, cmd, printed, err, crashed, avars,
                   all_facts, combined_facts, payload>>

\* "Set fact for <key>": <key>_result.get('data', {})
set_fact ==
    /\ AtTask("set_fact")
    /\ all_facts' = With(all_facts, Script[task].key,
                         DictGet(registered[Script[task].key], "data", EmptyDict))
    /\ task' = task + 1
    /\ UNCHANGED <<pvars, avars, registered, combined_facts, payload>>

\* "Aggregate all facts": an undefined all_facts_<key> fails the task
aggregate ==
    /\ AtTask("aggregate")
    /\ IF \A i \in 1..Len(aggregation_keys) : aggregation_keys[i] \in DOMAIN all_facts
       THEN /\ combined_facts' = JDict([k \in {aggregation_keys[i] : i \in 1..Len(aggregation_keys)}
                                          |-> all_facts[k]])
            /\ task' = task + 1
            /\ UNCHANGED <<pc, exit_status>>
       ELSE Abort /\ UNCHANGED combined_facts
    /\ UNCHANGED <<infile, outfile, data, cmd, printed, err, crashed, avars,
                   registered, all_facts, payload>>

\* "Display aggregated facts" and "Confirm file saved": debug messages
debug ==
    /\ AtTask("display") \/ AtTask("confirm")
    /\ task' = task + 1
    /\ UNCHANGED <<pvars, avars, registered, all_facts, combined_facts, payload>>

\* {{ combined_facts | to_nice_json }}: the JSON text, keys sorted
to_nice_json(x) == json_dump(x)

\* "Save facts to JSON file": copy content to dest; the copy may fail
save ==
    /\ AtTask("save")
    /\ \/ /\ outfile' = File(to_nice_json(combined_facts))
          /\ task' = task + 1
          /\ UNCHANGED <<pc, exit_status>>
       \/ Abort /\ UNCHANGED outfile
    /\ UNCHANGED <<infile, data, cmd, printed, err, crashed, avars,
                   registered, all_facts, combined_facts, payload>>

\* the last task is done: the engine exits 0
play_end ==
    /\ pc = "play" /\ task > Len(Script)
    /\ pc' = "exited"
    /\ exit_status' = 0
    /\ UNCHANGED <<infile, outfile, data, cmd, printed, err, crashed, avars, evars>>

PlayNext ==
    \/ module_task
    \/ set_fact
    \/ aggregate
    \/ debug
    \/ save
    \/ play_end

PlaySpec == PlayInit /\ [][PlayNext]_vars

(***************************************************************************)
(* run and run_simple: the external execution and its verification         *)
(***************************************************************************)
\* what the output path may hold before, and be given by, the external command
ValidFacts == File(json_dump(JDict(Field("ldevs", JList(<<AnItem>>)))))
ValidScalar == File(json_dump(JNum(3)))
InvalidFacts == File(<<P("{"), Tok("str", "ldevs")>>)

\* what the external command does to the output file
Effects == {"keep", "remove", "write_facts", "write_scalar", "write_invalid"}
Effect(kind, f) ==
    CASE kind = "keep" -> f
      [] kind = "remove" -> NoFile
      [] kind = "write_facts" -> ValidFacts
      [] kind = "write_scalar" -> ValidScalar
      [] kind = "write_invalid" -> InvalidFacts
\* exit statuses of the engine: success, error, failed hosts, unreachable hosts
ReturnCodes == {0, 1, 2, 4}

AggInit ==
    /\ ProcIdle /\ EngineIdle
    /\ pc = "start"
    /\ use_role \in BOOLEAN
    /\ vault_password_file \in {"", ".vault_pass"}
    /\ outfile \in {NoFile, ValidFacts, InvalidFacts}
    /\ playbook_file = NoFile
    /\ cmdline = <<>>
    /\ proc = NoProc
    /\ success = "none"
    /\ exit_status = NoExit

\* run / run_simple returns b, and main ends: sys.exit(0 if success else 1)
Returns(b) ==
    /\ pc' = "done"
    /\ success' = b
    /\ exit_status' = IF b THEN 0 ELSE 1

\* cmd.extend(['--vault-password-file', self.vault_password_file])
vault_args ==
    IF vault_password_file # "" THEN <<"--vault-password-file", vault_password_file>> ELSE <<>>

\* run, up to the call of subprocess.run: the temporary file is created and
\* written (either may raise, which `except Exception` turns into False)
run_launch ==
    /\ pc = "start" /\ ~ use_role
    /\ \/ \* NamedTemporaryFile raises: no file
          /\ Returns(FALSE)
          /\ UNCHANGED <<playbook_file, cmdline>>
       \/ \* f.write raises: the file is there, empty
          /\ playbook_file' = File(<<>>)
          /\ Returns(FALSE)
          /\ UNCHANGED cmdline
       \/ /\ playbook_file' = File(generate_playbook)
          /\ cmdline' = <<"ansible-playbook", "playbook_path">> \o vault_args
          /\ pc' = "subprocess"
          /\ UNCHANGED <<success, exit_status>>
    /\ UNCHANGED <<infile, outfile, data, cmd, printed, err, crashed,
                   use_role, vault_password_file, proc, evars>>

\* the verification of run after a clean exit (lines 208-219); json.load or
\* len(data) raising is caught and gives False
run_verified(f) ==
    IF f.exists
    THEN json_load(f.text).ok /\ HasLen(json_load(f.text).val)
    ELSE FALSE

\* run, from subprocess.run on: the call raises or returns, the temporary
\* file is unlinked after a return, the result is verified
run_complete ==
    /\ pc = "subprocess" /\ ~ use_role
    /\ \/ \* subprocess.run raises (the executable is missing)
          /\ proc' = [raised |-> TRUE, returncode |-> NoExit]
          /\ Returns(FALSE)
          /\ UNCHANGED <<outfile, playbook_file>>
       \/ \E rc \in ReturnCodes, e \in Effects :
             /\ proc' = [raised |-> FALSE, returncode |-> rc]
             /\ outfile' = Effect(e, outfile)
             /\ playbook_file' = NoFile
             /\ Returns(rc = 0 /\ run_verified(outfile'))
    /\ UNCHANGED <<infile, data, cmd, printed, err, crashed,
                   use_role, vault_password_file, cmdline, evars>>

\* run_simple, up to the call of subprocess.run
run_simple_launch ==
    /\ pc = "start" /\ use_role
    /\ cmdline' = <<"ansible-playbook", "gather_all_facts.yml", "-e", "facts_output_file">>
                  \o vault_args
    /\ pc' = "subprocess"
    /\ UNCHANGED <<infile, outfile, data, cmd, printed, err, crashed, exit_status,
                   use_role, vault_password_file, playbook_file, proc, success, evars>>

\* run_simple, from subprocess.run on (lines 246-257)
run_simple_complete ==
    /\ pc = "subprocess" /\ use_role
    /\ \/ /\ proc' = [raised |-> TRUE, returncode |-> NoExit]
          /\ Returns(FALSE)
          /\ UNCHANGED outfile
       \/ \E rc \in ReturnCodes, e \in Effects :
             /\ proc' = [raised |-> FALSE, returncode |-> rc]
             /\ outfile' = Effect(e, outfile)
             /\ Returns(rc = 0)
    /\ UNCHANGED <<infile, data, cmd, printed, err, crashed,
                   use_role, vault_password_file, playbook_file, cmdline, evars>>

AggNext ==
    \/ run_launch
    \/ run_complete
    \/ run_simple_launch
    \/ run_simple_complete

AggSpec == AggInit /\ [][AggNext]_vars

(***************************************************************************)
(* Properties of the processor                                             *)
(***************************************************************************)
\* the document the run started from, as json.load reads the input file
InputDoc == json_load(infile.text).val
Ran(n) == pc = "done" /\ printed # Nothing /\ printed.cmd = n

RECURSIVE SumOfCounts(_, _)
\* the sum of what `count` prints for each category of S
SumOfCounts(d, S) ==
    IF S = {} THEN 0
    ELSE LET c == CHOOSE x \in S : TRUE
         IN count_items(d.v[c]) + SumOfCounts(d, S \ {c})

\* C1: the total printed by summary is the sum over all categories of the
\* count printed by count, and summary's count of each category is count's.
C1_SummaryTotalIsSumOfCounts ==
    Ran("summary") =>
        /\ printed.total = SumOfCounts(data, Keys(data))
        /\ \A c \in Keys(data) : printed.counts[c] = count_items(data.v[c])

\* filter ran on a category whose value is an object with a list under "data"
FilterOnList ==
    /\ pc = "done" /\ cmd.name = "filter"
    /\ IsDict(data) /\ cmd.category \in Keys(data)
    /\ IsDict(data.v[cmd.category]) /\ "data" \in Keys(data.v[cmd.category])
    /\ IsList(data.v[cmd.category].v["data"])

\* the items of the input list that are objects whose field key is the string value
KeptItems(items, key, value) ==
    SelectSeq(items, LAMBDA it : it.t = "dict" /\ key \in DOMAIN it.v /\ it.v[key] = JStr(value))

\* C2: on a category {"data": <list>}, filter writes {"data": L}, L being the
\* sub-sequence of the items that are objects whose field key equals the
\* string value (no coercion), in their original order.
C2_FilterKeepsExactMatches ==
    FilterOnList =>
        /\ exit_status = 0
        /\ outfile.exists
        /\ json_load(outfile.text) =
              [ok |-> TRUE,
               val |-> DataOf(JList(KeptItems(data.v[cmd.category].v["data"].v,
                                              cmd.key, cmd.value)))]

\* filter ran with value "1" on a list holding a numeric 1, a string "1" and
\* a non-object, and kept the string one only
C2_Witness ==
    /\ FilterOnList /\ cmd.key = "status" /\ cmd.value = "1"
    /\ data.v[cmd.category].v["data"].v = <<JDict(Field("status", JNum(1))),
                                            JDict(Field("status", JStr("1")))>>
    /\ json_load(outfile.text).val = DataOf(JList(<<JDict(Field("status", JStr("1")))>>))

\* export ran on a category whose value is an object with a non-empty list under "data"
ExportOnList ==
    /\ pc = "done" /\ cmd.name = "export"
    /\ IsDict(data) /\ cmd.category \in Keys(data)
    /\ IsDict(data.v[cmd.category]) /\ "data" \in Keys(data.v[cmd.category])
    /\ IsList(data.v[cmd.category].v["data"])
    /\ Len(data.v[cmd.category].v["data"].v) > 0

\* the union of the keys of the items that are objects
UnionOfKeys(items) == UNION {DOMAIN items[i].v : i \in {j \in 1..Len(items) : items[j].t = "dict"}}

\* C3: on a category {"data": <non-empty list>}, export completes and writes
\* the sorted union of the keys as header, then one row per item.
C3_ExportOneRowPerItem ==
    ExportOnList =>
        /\ exit_status = 0
        /\ outfile.exists
        /\ Len(outfile.text) = 1 + Len(data.v[cmd.category].v["data"].v)
        /\ outfile.text[1] = Sorted(UnionOfKeys(data.v[cmd.category].v["data"].v))

\* C4: extract of a present category writes a file that parses to a value
\* equal to document[category] and leaves the in-memory document as loaded;
\* with the category absent it ends with exit status 1.
C4_ExtractRoundTrip ==
    (pc = "done" /\ cmd.name = "extract" /\ json_load(infile.text).ok) =>
        /\ data = InputDoc
        /\ IF IsDict(InputDoc) /\ cmd.category \in Keys(InputDoc)
           THEN /\ exit_status = 0
                /\ outfile.exists
                /\ json_load(outfile.text) = [ok |-> TRUE, val |-> InputDoc.v[cmd.category]]
           ELSE exit_status = 1

\* extract wrote a category holding a list of two items, one of them no object
C4_Witness ==
    /\ Ran("extract") /\ exit_status = 0
    /\ IsDict(InputDoc.v[cmd.category]) /\ "data" \in Keys(InputDoc.v[cmd.category])
    /\ InputDoc.v[cmd.category].v["data"] = JList(<<JDict(Field("status", JBool(TRUE))), JNum(1)>>)
    /\ json_load(outfile.text).val = InputDoc.v[cmd.category]

\* the document diff compares with
OtherDoc == json_load(cmd.compare.text).val

\* C5: the three category sets of diff are pairwise disjoint and their union
\* is keys(A) \cup keys(B).
C5_DiffPartitions ==
    Ran("diff") =>
        /\ printed.only_in_first \cap printed.only_in_second = {}
        /\ printed.only_in_first \cap printed.common = {}
        /\ printed.only_in_second \cap printed.common = {}
        /\ printed.only_in_first \cup printed.only_in_second \cup printed.common
              = Keys(data) \cup Keys(OtherDoc)

\* diff ran on two documents with a category of each kind
C5_Witness ==
    /\ Ran("diff")
    /\ printed.only_in_first = {"ldevs"}
    /\ printed.only_in_second = {"storage_pools"}
    /\ printed.common = {"users"}

\* C7: the exit status is 0 exactly when the subcommand succeeded (no error
\* reported, no abnormal end) and 1 otherwise; validate on a root that is no
\* object ends nonzero, and warnings alone leave it at 0.
C7_ExitStatus ==
    pc = "done" =>
        /\ exit_status \in {0, 1}
        /\ (exit_status = 0) <=> (~ err /\ ~ crashed)
        /\ (cmd.name = "validate" /\ json_load(infile.text).ok /\ infile.exists) =>
              IF IsDict(data) THEN exit_status = 0 ELSE exit_status # 0

\* validate ended on a root that is a list, and validate ended on a document
\* with a warning
C7_WitnessHardError ==
    /\ pc = "done" /\ cmd.name = "validate"
    /\ infile.exists /\ json_load(infile.text).ok
    /\ data = JList(<<>>) /\ exit_status = 1

(***************************************************************************)
(* Properties of the aggregator                                            *)
(***************************************************************************)
\* C6: in both modes success is reported only if the external execution
\* exited 0 and the output file exists and parses as JSON.
C6_SuccessOnlyIfVerified ==
    (pc = "done" /\ success = TRUE) =>
        /\ ~ proc.raised /\ proc.returncode = 0
        /\ outfile.exists
        /\ json_load(outfile.text).ok

\* C9: a run that created the temporary script file and went on to the
\* external execution has deleted the file when it returns, whether the
\* execution exited 0, exited nonzero or could not be launched.
C9_TemporaryFileDeleted ==
    (pc = "done" /\ ~ use_role /\ cmdline # <<>>) => ~ playbook_file.exists

\* the value the generated script stores for a category, read from the saved file
Stored(key) == json_load(outfile.text).val.v[key]

\* C8: the saved document holds, for every category, {"data": <what the
\* module returned>} or an empty object after a failure, so that count
\* reports n for a module that returned a list of n items.
C8_SavedDocumentIsFactsDocument ==
    (pc = "exited" /\ outfile.exists) =>
        LET saved == json_load(outfile.text).val
        IN \A key \in FactKeys :
              IF registered[key] = ModuleFailed THEN saved.v[key] = EmptyDict
              ELSE /\ saved.v[key] = DataOf(payload)
                   /\ IsList(payload) => count_items(saved.v[key]) = Len(payload.v)

SaveIndex == CHOOSE i \in 1..Len(Script) : Script[i].kind = "save"
AggregateIndex == CHOOSE i \in 1..Len(Script) : Script[i].kind = "aggregate"

\* C10: failed category steps do not abort the run: every category is
\* attempted, a failed one is recorded as an empty result, the merge runs
\* after all category steps, and the merged document has one key per
\* category of the table, all 30.
C10_FailuresAreNotFatal ==
    /\ pc = "aborted" => task = SaveIndex
    /\ \A i \in 1..Len(Script) :
          (task > i /\ Script[i].kind = "module") => Script[i].key \in DOMAIN registered
    /\ \A k \in DOMAIN all_facts : registered[k] = ModuleFailed => all_facts[k] = EmptyDict
    /\ combined_facts # JNull =>
          /\ task > AggregateIndex
          /\ DOMAIN registered = FactKeys /\ DOMAIN all_facts = FactKeys
          /\ \A i \in 1..Len(Script) : Script[i].kind \in {"module", "set_fact"} => i < AggregateIndex
    /\ (pc = "exited" /\ outfile.exists) =>
          LET saved == json_load(outfile.text)
          IN /\ saved.ok
             /\ Keys(saved.val) = FactKeys
             /\ Cardinality(Keys(saved.val)) = 30
             /\ Len(FACTS_MODULES) = 30
             /\ \A k \in Failures : saved.val.v[k] = EmptyDict

\* the script ran to its end with two failed categories, both saved empty
C10_Witness ==
    /\ pc = "exited" /\ outfile.exists
    /\ Failures = {"ldevs", "users"}
    /\ Stored("ldevs") = EmptyDict /\ Stored("users") = EmptyDict
    /\ Cardinality(Keys(json_load(outfile.text).val)) = 30

(***************************************************************************)
(* Properties of the processor: loading, validate, the counting rules and  *)
(* the output file                                                         *)
(***************************************************************************)
\* the file selected by -f does not exist or does not hold one JSON value
InputUnloadable ==
    ~ infile.exists \/ infile.text \in InvalidTexts \cup UndecodableTexts

\* the file f is missing or holds the serialisation of none of the documents
\* diff is given to compare with
CompareUnloadable(f) == ~ f.exists \/ \A d \in OtherDocs : f.text # json_dump(d)

\* the process ends with status 1 having printed no result and left the
\* output path as it was
EndsBeforeOperation ==
    /\ pc' = "done" /\ exit_status' = 1
    /\ printed' = Nothing
    /\ outfile' = outfile

\* C11: with an input file that is missing or is not valid JSON, every
\* subcommand ends with exit status 1 before its operation starts (nothing is
\* printed as a result, the output path is untouched); diff ends the same
\* way when the comparison file cannot be loaded.
C11_LoadFailureEndsBeforeOperation ==
    [][ /\ (pc = "start" /\ InputUnloadable /\ cmd'.name \in CommandNames)
              => (EndsBeforeOperation /\ data' = JNull)
        /\ (pc = "loaded" /\ cmd.name = "diff" /\ CompareUnloadable(cmd'.compare))
              => EndsBeforeOperation ]_vars

\* export was asked of an input file that is not valid JSON, with a file
\* already at the output path
C11_Witness ==
    /\ pc = "done" /\ cmd.name = "export"
    /\ infile.exists /\ infile.text \in InvalidTexts
    /\ exit_status = 1 /\ err /\ printed = Nothing
    /\ outfile = StaleFile

\* validate ended on an input file that holds valid JSON
ValidateEnded ==
    /\ pc = "done" /\ cmd.name = "validate"
    /\ infile.exists /\ Decodes(infile.text) /\ json_load(infile.text).ok

\* a category value that is to be flagged: no object, or an object without
\* "data", or one whose "data" is neither a list nor an object
Flagged(content) ==
    \/ content.t # "dict"
    \/ "data" \notin DOMAIN content.v
    \/ content.v["data"].t \notin {"list", "dict"}

\* C12: on every valid JSON document validate runs to its report: it warns
\* of exactly the categories to be flagged, and reports the hard error
\* exactly when the root is no object (a list or scalar root gets the report,
\* no other failure).
C12_ValidateReports ==
    ValidateEnded =>
        /\ ~ crashed
        /\ printed # Nothing /\ printed.cmd = "validate"
        /\ (printed.errors # <<>>) <=> (InputDoc.t # "dict")
        /\ InputDoc.t = "dict" =>
              \A c \in DOMAIN InputDoc.v :
                  (c \in DOMAIN printed.warnings) <=> Flagged(InputDoc.v[c])

\* C13: for every common category diff prints, for each of the two values,
\* the count summary reports for that value, and flags the category as equal
\* exactly when summary's counts of the two values are equal.
C13_DiffCountsAsSummary ==
    Ran("diff") =>
        \A k \in printed.common :
            /\ printed.counts[k][1] = summary_count(data.v[k])
            /\ printed.counts[k][2] = summary_count(OtherDoc.v[k])
            /\ (printed.symbol[k] = "=")
                  <=> (summary_count(data.v[k]) = summary_count(OtherDoc.v[k]))

\* extract, filter or export takes its step and the process ends without success
EndsWithoutSuccess(names) ==
    /\ pc = "loaded" /\ cmd.name \in names
    /\ pc' = "done" /\ exit_status' # 0

\* C14: when extract, filter or export ends without success, by a reported
\* error or by an abnormal end while it processes the items, the output path
\* is as it was before: no file was created, truncated or partly written.
C14_NoOutputOnFailure ==
    [][ EndsWithoutSuccess({"extract", "filter", "export"}) => outfile' = outfile ]_vars

====
